---- MODULE Spec2Model ----
(***************************************************************************)
(* State-machine model of the WSPR beacon core (WSPRbeacon.c):             *)
(* WSPRbeaconInit, WSPRbeaconSetDialFreq, WSPRbeaconCreatePacket,          *)
(* WSPRbeaconSendPacket and WSPRbeaconTxScheduler, together with the       *)
(* environment they read: the monotonic microsecond clock and the GPS      *)
(* time snapshot.                                                          *)
(*                                                                         *)
(* A 64-bit microsecond time stamp is kept as a record [s, us] standing    *)
(* for s * 1000000 + us, and a uint32_t or uint64_t count of seconds as a   *)
(* record [hi, lo] standing for hi * LIMB + lo, since TLC's integers are   *)
(* 32 bits wide.                                                           *)
(***************************************************************************)
EXTENDS Integers, Sequences, FiniteSets, TLC

VARIABLES
    now,          \* GetUptime64(): the monotonic clock, [s, us]
    gps,          \* _pGPStime->_time_data: the GPS time snapshot
    itx_trigger,  \* static int itx_trigger of WSPRbeaconTxScheduler (one per process)
    ctx,          \* the beacon contexts constructed so far, by context id
    aborted,      \* an assert_ has failed: the program has stopped
    ev,           \* the last API call: the steps it made (ev.calls), what it returned
    hist,         \* per context: the 2-minute window of its last eligible poll and what it saw there
    own,          \* per context: the latch this context would hold if no other context were polled
    div0          \* the number of polls that have evaluated islot_number % 0

vars == <<now, gps, itx_trigger, ctx, aborted, ev, hist, own, div0>>

----------------------------------------------------------------------------
(* Program constants *)

kHz == 1000
MINUTE == 60
HOUR == 3600
YES == 1
ZERO == 0
WSPR_SYMBOL_COUNT == 162
\* TxChannelContext: uint8_t _pbyte_buffer[256] and uint8_t _ix_input
TX_BUFFER_SIZE == 256
IX_INPUT_MODULUS == 256
\* return values of WSPRbeaconTxScheduler
RET_OK == 0
RET_WAITING_GPS == 0 - 1

----------------------------------------------------------------------------
(* Bounds of the model *)

\* number of clock advances after boot
MaxTicks == 5
\* number of GPS sentences received after boot
MaxFixes == 2

\* number of polls made of a context whose schedule was never configured
MaxUnconfiguredPolls == 2

\* number of triggers of one beacon in one 2-minute window, where two beacons are polled
MaxTriggersPerWindow == 2

\* one clock advance, in seconds: one slot
TickSeconds == 2 * MINUTE

\* microseconds from a poll's read of the clock to a sentence received during it
RaceMicros == 5

\* the uptime at which the beacon is constructed
BootUptime == [s |-> 7081, us |-> 250000]
\* the uptime of a GPS sentence received long before the beacon is constructed
StaleUptime == [s |-> 0, us |-> 500000]
\* UTC (unix seconds) at uptime 0; UTC at the boot uptime is one second past the
\* top of an hour, so that the boot falls in slot 0 by a new sentence and by an old one
UnixAtUptimeZero == 472222 * HOUR - 7080

\* uptimes of a first poll at which the sentence of StaleUptime is 7199.0,
\* 7199.999999, 7200.0 and 7200.999999 seconds old
HoldoverUptimes ==
    { [s |-> 2 * HOUR - 1, us |-> 500000], [s |-> 2 * HOUR, us |-> 499999],
      [s |-> 2 * HOUR, us |-> 500000], [s |-> 2 * HOUR + 1, us |-> 499999] }

DialFreqs == {1099900, 7040000}
ShiftFreqs == {100}
SetFreqs == {1100000, 7040100}
SkipFactors == {1, 2, 3}

----------------------------------------------------------------------------
(* Unsigned arithmetic on counts of seconds, [hi, lo] = hi * LIMB + lo *)

LIMB == 256 * 256

\* a number below 2^31 as a count of seconds
Wide(n) == [hi |-> n \div LIMB, lo |-> n % LIMB]

WideAdd(a, b) ==
    LET lo == a.lo + b.lo
    IN  [hi |-> a.hi + b.hi + lo \div LIMB, lo |-> lo % LIMB]

\* a - b, for a >= b
WideSub(a, b) ==
    LET lo == a.lo - b.lo
    IN  IF lo >= 0 THEN [hi |-> a.hi - b.hi, lo |-> lo]
                   ELSE [hi |-> a.hi - b.hi - 1, lo |-> lo + LIMB]

WideLess(a, b) == a.hi < b.hi \/ (a.hi = b.hi /\ a.lo < b.lo)

\* a % m and a / m, for a below 2^32 and m below 2^15
WideMod(a, m) == ((a.hi % m) * (LIMB % m) + a.lo) % m
WideDiv(a, m) == a.hi * (LIMB \div m) + (a.hi * (LIMB % m) + a.lo) \div m

\* the conversion to uint32_t: the value modulo 2^32
ToU32(a) == [a EXCEPT !.hi = @ % LIMB]

\* 2^64 microseconds are 18446744073709 seconds and 551616 microseconds
U64WrapSeconds == [hi |-> 281474976, lo |-> 46573]
U64WrapMicros == 551616

----------------------------------------------------------------------------
(* Pure functions of the scheduler *)

\* GPS time of day at an uptime: what a sentence received then reports
UtcAt(t) == Wide(UnixAtUptimeZero + t.s)

TimeBefore(a, b) == a.s < b.s \/ (a.s = b.s /\ a.us < b.us)

\* (u64tmnow - _u64_sysclk_nmea_last) / 1000000ULL, in uint64_t: with the stamp
\* ahead of the clock the difference is 2^64 - (last - tmnow) microseconds
GPS_last_age_sec(tmnow, last) ==
    IF ~TimeBefore(tmnow, last)
      THEN Wide(IF tmnow.us >= last.us THEN tmnow.s - last.s
                                       ELSE tmnow.s - last.s - 1)
      ELSE LET borrow == last.us < tmnow.us
               ds  == IF borrow THEN last.s - tmnow.s - 1 ELSE last.s - tmnow.s
               dus == IF borrow THEN last.us - tmnow.us + 1000000
                                ELSE last.us - tmnow.us
           IN  WideSub(U64WrapSeconds,
                       Wide(IF dus > U64WrapMicros THEN ds + 1 ELSE ds))

\* mutant: the sentence counter is never tested
GPSAvailable_always(count) == TRUE

\* if(!is_GPS_available)
GPSAvailable(count) == count # 0

\* mutant: the holdover age is accepted without the override flag
Eligible_ignoresFlag(active, override, age) ==
    active # 0 \/ WideLess(age, Wide(2 * HOUR))

\* mutant: the holdover bound is inclusive
Eligible_inclusive(active, override, age) ==
    active # 0 \/ (override # 0 /\ ~WideLess(Wide(2 * HOUR), age))

\* if(is_GPS_active || (is_GPS_override && u64_GPS_last_age_sec < 2 * HOUR))
Eligible(active, override, age) ==
    active # 0 \/ (override # 0 /\ WideLess(age, Wide(2 * HOUR)))

\* is_GPS_override = pctx->_txSched._u8_tx_GPS_past_time == YES
IsOverride(past_time) == IF past_time = YES THEN 1 ELSE 0

\* const uint32_t u32_unixtime_now = _u32_utime_nmea_last + u64_GPS_last_age_sec:
\* the 64-bit sum converted to uint32_t
UnixtimeNow(utime_last, age) == ToU32(WideAdd(utime_last, age))

\* isec_of_hour = u32_unixtime_now % HOUR
SecOfHour(unixtime) == WideMod(unixtime, HOUR)

\* mutant: one-minute slots
SlotNumber_oneMinute(sec_of_hour) == sec_of_hour \div MINUTE

\* islot_number = isec_of_hour / (2 * MINUTE)
SlotNumber(sec_of_hour) == sec_of_hour \div (2 * MINUTE)

\* islot_modulo = islot_number % _u8_tx_slot_skip.  A zero divisor is undefined
\* behaviour: any remainder, or a trap (-1 here).
SlotModuloOutcomes(slot, skip) ==
    IF skip = 0 THEN {0 - 1, 0, 1} ELSE {slot % skip}

\* mutant: the latch is never tested
TriggerArmed_always(trigger) == TRUE

\* if(!itx_trigger)
TriggerArmed(trigger) == trigger = 0

\* assert_(pctx->_pTX->_u32_dialfreqhz > 1100 * kHz)
FreqAboveFloor(freq) == freq > 1100 * kHz

\* A run of bytes is kept by what filled it: calloc's zeros, or the symbols
\* wspr_encode made of a context's callsign, locator and power.
ZeroBytes == [kind |-> "zero", of |-> 0]

\* wspr_encode(callsign, locator, power, outbuf): the symbols of context c's message
wspr_encode(c) == [kind |-> "symbols", of |-> c]

\* byte i of a run: symbol i of the message, a value in 0..3
ByteAt(bytes, i) == IF bytes.kind = "zero" THEN 0 ELSE (i + bytes.of) % 4

\* The transmit buffer is kept as its first WSPR_SYMBOL_COUNT bytes (head) and
\* the bytes after them (tail): the only store to it is the memcpy below.
\* memcpy(_pbyte_buffer, _pu8_outbuf, WSPR_SYMBOL_COUNT)
MemcpyToTx(buffer, outbuf) == [buffer EXCEPT !.head = outbuf]

\* _pbyte_buffer[i], 0 <= i < TX_BUFFER_SIZE
TxByteAt(buffer, i) ==
    IF i < WSPR_SYMBOL_COUNT THEN ByteAt(buffer.head, i) ELSE ByteAt(buffer.tail, i)

\* _ix_input += WSPR_SYMBOL_COUNT
AdvanceIxInput(ix) == (ix + WSPR_SYMBOL_COUNT) % IX_INPUT_MODULUS

----------------------------------------------------------------------------
(* Construction *)

\* calloc + TxChannelInit + _u32_dialfreqhz = dial_freq_hz + shift_freq_hz
WSPRbeaconInit(dial_freq_hz, shift_freq_hz) ==
    [ u8_tx_slot_skip     |-> 0,
      u8_tx_GPS_past_time |-> 0,
      u32_dialfreqhz      |-> dial_freq_hz + shift_freq_hz,
      pu8_outbuf          |-> ZeroBytes,
      pbyte_buffer        |-> [head |-> ZeroBytes, tail |-> ZeroBytes],
      ix_input            |-> 0,
      dco_running         |-> FALSE ]

NoFix == [ u32_nmea_gprmc_count |-> 0, u8_is_solution_active |-> 0,
           u64_sysclk_nmea_last |-> [s |-> 0, us |-> 0],
           u32_utime_nmea_last |-> Wide(0) ]

StaleFix(active) ==
    [ u32_nmea_gprmc_count |-> 1, u8_is_solution_active |-> active,
      u64_sysclk_nmea_last |-> StaleUptime, u32_utime_nmea_last |-> UtcAt(StaleUptime) ]

NoEvent == [ op |-> "none", c |-> 0, returned |-> TRUE, ret |-> RET_OK,
             calls |-> <<>>, trigger_before |-> 0, solo |-> FALSE,
             entered |-> FALSE, sec |-> 0 - 1, slot |-> 0 - 1 ]

\* phase: 1 once the context has triggered, 2 once an eligible poll of it has
\* observed a non-qualifying slot since its last trigger
NoHistory == [ win |-> 0 - 1, ntrig |-> 0, phase |-> 0 ]

\* unix times of a last fix 7200 and 7000 seconds before 2^32
LateFixTimes == { [hi |-> LIMB - 1, lo |-> LIMB - 7200],
                  [hi |-> LIMB - 1, lo |-> LIMB - 7000] }

\* a sentence received before construction that reported the time utime
LateFix(active, utime) == [StaleFix(active) EXCEPT !.u32_utime_nmea_last = utime]

BootFixes == {NoFix} \cup {StaleFix(a) : a \in {0, 1}}

\* the state after construction of the contexts ids at one of the uptimes,
\* with one of the snapshots fixes
InitAt(ids, uptimes, fixes) ==
    /\ now \in uptimes
    /\ gps \in fixes
    /\ itx_trigger = 0
    /\ \E d \in DialFreqs : \E sh \in ShiftFreqs :
          ctx = [c \in ids |-> WSPRbeaconInit(d, sh)]
    /\ aborted = FALSE
    /\ ev = NoEvent
    /\ hist = [c \in ids |-> NoHistory]
    /\ own = [c \in ids |-> 0]
    /\ div0 = 0

InitWith(ids) == InitAt(ids, {BootUptime}, BootFixes)

Init == InitWith({1})

InitTwo == InitWith({1, 2})

----------------------------------------------------------------------------
(* Environment: the clock and the GPS sentence parser *)

Tick ==
    /\ ~aborted
    /\ now.s < BootUptime.s + MaxTicks * TickSeconds
    /\ now' = [now EXCEPT !.s = @ + TickSeconds]
    /\ ev' = NoEvent
    /\ UNCHANGED <<gps, itx_trigger, ctx, aborted, hist, own, div0>>

\* The clock advancing for ever, one slot after each slot in which a poll was
\* made.  Once the last sentence is three hours old the clock is set back by an
\* hour: the age stays above the two-hour bound of line 146 and the second of
\* the hour of line 151 is the same, so every later poll decides as it would
\* have without the setback.
TickForever ==
    /\ ~aborted
    /\ ev.op = "poll"
    /\ LET t == [now EXCEPT !.s = @ + TickSeconds]
       IN  now' = IF t.s - gps.u64_sysclk_nmea_last.s > 3 * HOUR
                    THEN [t EXCEPT !.s = @ - HOUR]
                    ELSE t
    /\ ev' = NoEvent
    /\ UNCHANGED <<gps, itx_trigger, ctx, aborted, hist, own, div0>>

\* the snapshot g after a GPRMC sentence with an active solution received at
\* uptime t: it takes the clock and the time
ActiveSentence(g, t) ==
    [ u32_nmea_gprmc_count  |-> g.u32_nmea_gprmc_count + 1,
      u8_is_solution_active |-> 1,
      u64_sysclk_nmea_last  |-> t,
      u32_utime_nmea_last   |-> UtcAt(t) ]

GpsSentenceActive ==
    /\ ~aborted
    /\ gps.u32_nmea_gprmc_count < MaxFixes
    /\ gps' = ActiveSentence(gps, now)
    /\ ev' = NoEvent
    /\ UNCHANGED <<now, itx_trigger, ctx, aborted, hist, own, div0>>

\* a GPRMC sentence without a solution: counted, the last time kept
GpsSentenceVoid ==
    /\ ~aborted
    /\ gps.u32_nmea_gprmc_count < MaxFixes
    /\ gps' = [gps EXCEPT !.u32_nmea_gprmc_count = @ + 1,
                          !.u8_is_solution_active = 0]
    /\ ev' = NoEvent
    /\ UNCHANGED <<now, itx_trigger, ctx, aborted, hist, own, div0>>

----------------------------------------------------------------------------
(* The caller's configuration of a context *)

\* pctx->_txSched._u8_tx_slot_skip = skip; pctx->_txSched._u8_tx_GPS_past_time = past
SetTxSched(c, skip, past) ==
    /\ ~aborted
    /\ ctx[c].u8_tx_slot_skip = 0
    /\ ctx[c].u8_tx_GPS_past_time = 0
    /\ ctx' = [ctx EXCEPT ![c].u8_tx_slot_skip = skip,
                          ![c].u8_tx_GPS_past_time = past]
    /\ ev' = NoEvent
    /\ UNCHANGED <<now, gps, itx_trigger, aborted, hist, own, div0>>

\* WSPRbeaconSetDialFreq
SetDialFreq(c, freq_hz) ==
    /\ ~aborted
    /\ ctx' = [ctx EXCEPT ![c].u32_dialfreqhz = freq_hz]
    /\ ev' = [NoEvent EXCEPT !.op = "setfreq", !.c = c]
    /\ UNCHANGED <<now, gps, itx_trigger, aborted, hist, own, div0>>

----------------------------------------------------------------------------
(* Encode and transmit handoff *)

\* WSPRbeaconCreatePacket: the context after the call
CreatePacketCtx(cx, c) == [cx EXCEPT !.pu8_outbuf = wspr_encode(c)]

\* WSPRbeaconSendPacket past its assertions: the context after the call
SendPacketCtx(cx) ==
    [cx EXCEPT !.pbyte_buffer = MemcpyToTx(cx.pbyte_buffer, cx.pu8_outbuf),
               !.ix_input = AdvanceIxInput(cx.ix_input)]

\* mutant: the stop leaves the oscillator as it was
DcoStopCtx_noop(cx) == cx

\* PioDCOStart / PioDCOStop
DcoStartCtx(cx) == [cx EXCEPT !.dco_running = TRUE]
DcoStopCtx(cx) == [cx EXCEPT !.dco_running = FALSE]

\* a direct call of WSPRbeaconCreatePacket
CreatePacket(c) ==
    /\ ~aborted
    /\ ctx' = [ctx EXCEPT ![c] = CreatePacketCtx(ctx[c], c)]
    /\ ev' = [NoEvent EXCEPT !.op = "create", !.c = c, !.calls = <<"wspr_encode">>]
    /\ UNCHANGED <<now, gps, itx_trigger, aborted, hist, own, div0>>

\* a direct call of WSPRbeaconSendPacket
SendPacket(c) ==
    /\ ~aborted
    /\ IF FreqAboveFloor(ctx[c].u32_dialfreqhz)
         THEN /\ ctx' = [ctx EXCEPT ![c] = SendPacketCtx(ctx[c])]
              /\ ev' = [NoEvent EXCEPT !.op = "send", !.c = c, !.ret = 0]
              /\ UNCHANGED aborted
         ELSE /\ aborted' = TRUE
              /\ ev' = [NoEvent EXCEPT !.op = "send", !.c = c, !.returned = FALSE]
              /\ UNCHANGED ctx
    /\ UNCHANGED <<now, gps, itx_trigger, hist, own, div0>>

----------------------------------------------------------------------------
(* WSPRbeaconTxScheduler *)

\* mutant: the handoff precedes the settle delay
TriggerSteps_sendBeforeSettle ==
    <<"itx_trigger = 1", "WSPRbeaconCreatePacket", "PioDCOStart",
      "WSPRbeaconSendPacket", "sleep_ms">>

\* mutant: the latch is left set
ClearTrigger_keeps(trigger) == trigger

\* mutant: the latch is left clear
SetTrigger_keeps(trigger) == trigger

\* itx_trigger = 0; and itx_trigger = 1;
ClearTrigger(trigger) == 0
SetTrigger(trigger) == 1

\* the statements of the trigger path, lines 160-168, in program order
TriggerSteps ==
    <<"itx_trigger = 1", "WSPRbeaconCreatePacket", "PioDCOStart", "sleep_ms",
      "WSPRbeaconSendPacket">>

\* the statements of the else branch, lines 173-175, in program order
NoSlotSteps == <<"itx_trigger = 0", "PioDCOStop">>

\* mutant: the final return gives the waiting status
ReturnAtEnd_unavailable == RET_WAITING_GPS

\* return -1; (no GPS sentence yet) and the final return 0;
ReturnWaiting == RET_WAITING_GPS
ReturnAtEnd == RET_OK

\* What a poll reads, in program order: the clock (line 127), the sentence
\* counter (128), the solution flag (129), the fix stamp (133) and the fix time
\* (149).  A sentence that arrives during the poll, after its arrives_after-th
\* read, turns the snapshot from before into after: the later reads see after.
ReadsAround(tmnow, before, after, arrives_after) ==
    [ tmnow                 |-> tmnow,
      u32_nmea_gprmc_count  |-> IF arrives_after < 2 THEN after.u32_nmea_gprmc_count
                                                     ELSE before.u32_nmea_gprmc_count,
      u8_is_solution_active |-> IF arrives_after < 3 THEN after.u8_is_solution_active
                                                     ELSE before.u8_is_solution_active,
      u64_sysclk_nmea_last  |-> IF arrives_after < 4 THEN after.u64_sysclk_nmea_last
                                                     ELSE before.u64_sysclk_nmea_last,
      u32_utime_nmea_last   |-> IF arrives_after < 5 THEN after.u32_utime_nmea_last
                                                     ELSE before.u32_utime_nmea_last ]

\* the reads of a poll during which no sentence arrives
Reads == ReadsAround(now, gps, gps, 0)

\* what the poll of context c computes from its reads r
AgeSeen(r) == GPS_last_age_sec(r.tmnow, r.u64_sysclk_nmea_last)
UnixSeen(r) == UnixtimeNow(r.u32_utime_nmea_last, AgeSeen(r))
SlotSeen(r) == SlotNumber(SecOfHour(UnixSeen(r)))
EligibleSeen(c, r) ==
    Eligible(r.u8_is_solution_active, IsOverride(ctx[c].u8_tx_GPS_past_time), AgeSeen(r))

\* the bookkeeping of the poll's 2-minute window: the triggers (each one a send) seen in it
HistAfter(h, win, trig) ==
    IF h.win = win
      THEN [h EXCEPT !.ntrig = @ + trig]
      ELSE [h EXCEPT !.win = win, !.ntrig = trig]

\* the record of a poll; entered: the block under the test of line 146 was
\* entered; sec, slot: its isec_of_hour and islot_number
PollEvent(c, r, returned, ret, calls, solo) ==
    LET entered == GPSAvailable(r.u32_nmea_gprmc_count) /\ EligibleSeen(c, r)
    IN  [ op |-> "poll", c |-> c, returned |-> returned, ret |-> ret,
          calls |-> calls, trigger_before |-> itx_trigger, solo |-> solo,
          entered |-> entered,
          sec |-> IF entered THEN SecOfHour(UnixSeen(r)) ELSE 0 - 1,
          slot |-> IF entered THEN SlotSeen(r) ELSE 0 - 1 ]

\* the poll gets as far as islot_number % _u8_tx_slot_skip
ReachesModulo(c, r) ==
    /\ GPSAvailable(r.u32_nmea_gprmc_count)
    /\ EligibleSeen(c, r)
    /\ ctx[c].u8_tx_slot_skip = 0 => div0 < MaxUnconfiguredPolls

\* if(!is_GPS_available) return -1;
PollWaitingForGPS(c, r) ==
    /\ ~GPSAvailable(r.u32_nmea_gprmc_count)
    /\ ev' = PollEvent(c, r, TRUE, ReturnWaiting, <<>>, FALSE)
    /\ UNCHANGED <<itx_trigger, ctx, aborted, hist, own, div0>>

\* the eligibility test fails: straight to return 0
PollNotEligible(c, r) ==
    /\ GPSAvailable(r.u32_nmea_gprmc_count)
    /\ ~EligibleSeen(c, r)
    /\ ev' = PollEvent(c, r, TRUE, ReturnAtEnd, <<>>, FALSE)
    /\ UNCHANGED <<itx_trigger, ctx, aborted, hist, own, div0>>

\* islot_number % 0 traps
PollTrap(c, r) ==
    /\ ReachesModulo(c, r)
    /\ (0 - 1) \in SlotModuloOutcomes(SlotSeen(r), ctx[c].u8_tx_slot_skip)
    /\ aborted' = TRUE
    /\ div0' = div0 + 1
    /\ ev' = PollEvent(c, r, FALSE, RET_OK, <<>>, FALSE)
    /\ UNCHANGED <<itx_trigger, ctx, hist, own>>

\* ZERO == islot_modulo, !itx_trigger: the trigger path
PollTrigger(c, r) ==
    /\ ReachesModulo(c, r)
    /\ ZERO \in SlotModuloOutcomes(SlotSeen(r), ctx[c].u8_tx_slot_skip)
    /\ TriggerArmed(itx_trigger)
    /\ itx_trigger' = SetTrigger(itx_trigger)
    /\ LET keyed == DcoStartCtx(CreatePacketCtx(ctx[c], c))
           calls == TriggerSteps
           solo  == own[c] = 0
       IN  /\ IF FreqAboveFloor(keyed.u32_dialfreqhz)
                THEN /\ ctx' = [ctx EXCEPT ![c] = SendPacketCtx(keyed)]
                     /\ ev' = PollEvent(c, r, TRUE, ReturnAtEnd, calls, solo)
                     /\ UNCHANGED aborted
                ELSE /\ ctx' = [ctx EXCEPT ![c] = keyed]
                     /\ ev' = PollEvent(c, r, FALSE, RET_OK, calls, solo)
                     /\ aborted' = TRUE
    /\ hist' = [hist EXCEPT ![c] =
                   [HistAfter(@, WideDiv(UnixSeen(r), 2 * MINUTE), 1) EXCEPT !.phase = 1]]
    /\ own' = [own EXCEPT ![c] = 1]
    /\ div0' = IF ctx[c].u8_tx_slot_skip = 0 THEN div0 + 1 ELSE div0

\* ZERO == islot_modulo, itx_trigger set: nothing to do
PollLatched(c, r) ==
    /\ ReachesModulo(c, r)
    /\ ZERO \in SlotModuloOutcomes(SlotSeen(r), ctx[c].u8_tx_slot_skip)
    /\ ~TriggerArmed(itx_trigger)
    /\ ev' = PollEvent(c, r, TRUE, ReturnAtEnd, <<>>, own[c] = 0)
    /\ hist' = [hist EXCEPT ![c] = HistAfter(@, WideDiv(UnixSeen(r), 2 * MINUTE), 0)]
    /\ own' = [own EXCEPT ![c] = 1]
    /\ div0' = IF ctx[c].u8_tx_slot_skip = 0 THEN div0 + 1 ELSE div0
    /\ UNCHANGED <<itx_trigger, ctx, aborted>>

\* ZERO != islot_modulo: itx_trigger = 0; PioDCOStop
PollNoSlot(c, r) ==
    /\ ReachesModulo(c, r)
    /\ \E m \in SlotModuloOutcomes(SlotSeen(r), ctx[c].u8_tx_slot_skip) : m > ZERO
    /\ itx_trigger' = ClearTrigger(itx_trigger)
    /\ ctx' = [ctx EXCEPT ![c] = DcoStopCtx(@)]
    /\ ev' = PollEvent(c, r, TRUE, ReturnAtEnd, NoSlotSteps, FALSE)
    /\ hist' = [hist EXCEPT ![c] =
                   [HistAfter(@, WideDiv(UnixSeen(r), 2 * MINUTE), 0)
                       EXCEPT !.phase = IF @ = 1 THEN 2 ELSE @]]
    /\ own' = [own EXCEPT ![c] = 0]
    /\ div0' = IF ctx[c].u8_tx_slot_skip = 0 THEN div0 + 1 ELSE div0
    /\ UNCHANGED <<aborted>>

\* the scheduler on the reads r
TxSchedulerOn(c, r) ==
    /\ ~aborted
    /\ \/ PollWaitingForGPS(c, r)
       \/ PollNotEligible(c, r)
       \/ PollTrap(c, r)
       \/ PollTrigger(c, r)
       \/ PollLatched(c, r)
       \/ PollNoSlot(c, r)

\* a poll during which no sentence arrives
TxScheduler(c) ==
    /\ TxSchedulerOn(c, Reads)
    /\ UNCHANGED <<now, gps>>

\* a poll during which a sentence with an active solution arrives, after the
\* poll's read of the clock and before its read of the fix time
TxSchedulerRaced(c) ==
    /\ gps.u32_nmea_gprmc_count < MaxFixes
    /\ \E arrives_after \in 1..4 :
          LET arrival == [now EXCEPT !.us = @ + RaceMicros]
              after   == ActiveSentence(gps, arrival)
          IN  /\ TxSchedulerOn(c, ReadsAround(now, gps, after, arrives_after))
              /\ gps' = after
              /\ now' = arrival

----------------------------------------------------------------------------
(* Specifications *)

Configure == \E c \in DOMAIN ctx : \E skip \in SkipFactors : \E past \in {0, YES} :
                 SetTxSched(c, skip, past)

Retune == \E c \in DOMAIN ctx : \E f \in SetFreqs : SetDialFreq(c, f)

Poll == \E c \in DOMAIN ctx : TxScheduler(c)

Next ==
    \/ Tick
    \/ GpsSentenceActive
    \/ GpsSentenceVoid
    \/ Configure
    \/ Retune
    \/ Poll

\* one beacon polled by its main loop
Spec == Init /\ [][Next]_vars

\* two beacons, each configured with holdover enabled before its first poll,
\* polled by one main loop; a beacon that has keyed MaxTriggersPerWindow times
\* in one window is polled again only in a later window
ConfigureHoldover == \E c \in DOMAIN ctx : \E skip \in SkipFactors :
                         SetTxSched(c, skip, YES)

PollConfigured == \E c \in DOMAIN ctx :
                      /\ ctx[c].u8_tx_slot_skip # 0
                      /\ hist[c].ntrig < MaxTriggersPerWindow
                      /\ TxScheduler(c)

NextTwo ==
    \/ Tick
    \/ GpsSentenceActive
    \/ ConfigureHoldover
    \/ PollConfigured

SpecTwo == InitTwo /\ [][NextTwo]_vars

\* the encode and handoff calls made directly
CreatePacketCall == \E c \in DOMAIN ctx : CreatePacket(c)

SendPacketCall == \E c \in DOMAIN ctx : SendPacket(c)

NextSend ==
    \/ Retune
    \/ CreatePacketCall
    \/ SendPacketCall

SpecSend == Init /\ [][NextSend]_vars

\* one beacon whose first polls are made as the last sentence turns two hours old
InitHoldover == InitAt({1}, HoldoverUptimes, BootFixes)

NextHoldover ==
    \/ GpsSentenceVoid
    \/ Configure
    \/ Poll

SpecHoldover == InitHoldover /\ [][NextHoldover]_vars

\* one beacon whose last fix reported a time shortly before 2^32 seconds
InitEpoch ==
    InitAt({1}, {BootUptime}, {LateFix(a, u) : a \in {0, 1}, u \in LateFixTimes})

NextEpoch ==
    \/ Tick
    \/ GpsSentenceVoid
    \/ Configure
    \/ Poll

SpecEpoch == InitEpoch /\ [][NextEpoch]_vars

\* one beacon, configured before its first poll, polled for ever: at least one
\* poll in every slot, and time advances
PollForever == \E c \in DOMAIN ctx :
                   /\ ctx[c].u8_tx_slot_skip # 0
                   /\ TxScheduler(c)

NextLive ==
    \/ TickForever
    \/ Configure
    \/ PollForever

SpecLive ==
    /\ Init
    /\ [][NextLive]_vars
    /\ WF_vars(TickForever)
    /\ WF_vars(Configure)
    /\ WF_vars(PollForever)

\* one beacon polled by its main loop while the GPS sentences arrive by interrupt
PollRaced == \E c \in DOMAIN ctx : TxSchedulerRaced(c)

NextRace ==
    \/ Tick
    \/ Configure
    \/ Poll
    \/ PollRaced

SpecRace == Init /\ [][NextRace]_vars

----------------------------------------------------------------------------
(* What the properties below read.  They restate the quantities of a poll   *)
(* from the snapshot, the clock and the configuration, which a poll leaves  *)
(* unchanged, and from the record ev of the call just made.                 *)

PollOf(c) == ev.op = "poll" /\ ev.c = c

TriggerCalls == <<"itx_trigger = 1", "WSPRbeaconCreatePacket", "PioDCOStart",
                  "sleep_ms", "WSPRbeaconSendPacket">>

\* the positions of a step among the steps of the call just made
StepsOf(name) == {i \in 1..Len(ev.calls) : ev.calls[i] = name}

\* the step was made exactly once, at position i
OnceAt(name, i) == StepsOf(name) = {i}

Called(name) == \E i \in 1..Len(ev.calls) : ev.calls[i] = name

FixCount == gps.u32_nmea_gprmc_count

AgeSeconds ==
    (now.s - gps.u64_sysclk_nmea_last.s)
        - (IF now.us < gps.u64_sysclk_nmea_last.us THEN 1 ELSE 0)

\* lastFixUnixTime + ageSeconds, not reduced to any width
UnixNow == WideAdd(gps.u32_utime_nmea_last, Wide(AgeSeconds))

SlotIndex == WideMod(UnixNow, 3600) \div 120

ReferenceEligible(c) ==
    \/ gps.u8_is_solution_active = 1
    \/ (ctx[c].u8_tx_GPS_past_time = 1 /\ AgeSeconds < 7200)

SkipFactor(c) == ctx[c].u8_tx_slot_skip

\* every poll so far was made with a configured (non-zero) skip factor
AlwaysConfigured == div0 = 0

----------------------------------------------------------------------------
(* C1: each qualifying 2-minute window (slot index divisible by the skip    *)
(* factor) in which the beacon made an eligible poll has produced exactly   *)
(* one trigger, for every skip factor >= 1.                                 *)
C1_ExactlyOneTriggerPerWindow ==
    \A c \in DOMAIN ctx :
        ( /\ AlwaysConfigured
          /\ SkipFactor(c) >= 1
          /\ hist[c].win >= 0
          /\ (hist[c].win % 30) % SkipFactor(c) = 0 )
        => hist[c].ntrig = 1

(* C2: within one qualifying slot, repeated polls cause at most one          *)
(* SendPacket, and a poll that finds the latch set in a qualifying slot      *)
(* calls neither the encoder, nor the oscillator, nor SendPacket.            *)
C2_AtMostOneSendPerSlot ==
    \A c \in DOMAIN ctx :
        AlwaysConfigured =>
            /\ hist[c].ntrig <= 1
            /\ ( /\ PollOf(c)
                 /\ ev.trigger_before # 0
                 /\ FixCount > 0
                 /\ ReferenceEligible(c)
                 /\ SkipFactor(c) >= 1
                 /\ SlotIndex % SkipFactor(c) = 0 )
               => (ev.calls = <<>> /\ itx_trigger = ev.trigger_before)

C2_Witness ==
    /\ PollOf(1)
    /\ AlwaysConfigured
    /\ ev.trigger_before = 1
    /\ ReferenceEligible(1)
    /\ SkipFactor(1) = 2
    /\ SlotIndex = 2
    /\ ev.calls = <<>>
    /\ hist[1].ntrig = 1

(* C3: a poll with fix-count > 0 that finds the latch clear triggers         *)
(* (encode, oscillator start, send) iff slotIndex mod skipFactor = 0 and     *)
(* (solutionActive or (overrideEnabled and ageSeconds < 7200)), where        *)
(* slotIndex = (unixNow mod 3600) / 120 lies in 0..29.                       *)
C3_TriggerIffQualifyingAndEligible ==
    \A c \in DOMAIN ctx :
        ( /\ PollOf(c)
          /\ AlwaysConfigured
          /\ SkipFactor(c) >= 1
          /\ FixCount > 0
          /\ ev.trigger_before = 0 )
        => /\ SlotIndex \in 0..29
           /\ (ev.calls = TriggerCalls)
                 <=> (SlotIndex % SkipFactor(c) = 0 /\ ReferenceEligible(c))
           /\ (~ (ev.calls = TriggerCalls)) => ~Called("PioDCOStart")

C3_Witness ==
    /\ PollOf(1)
    /\ AlwaysConfigured
    /\ SkipFactor(1) = 3
    /\ SlotIndex = 3
    /\ ev.trigger_before = 0
    /\ gps.u8_is_solution_active = 0
    /\ ev.calls = TriggerCalls
    /\ ev.returned

C5_NoFixNoAction ==
    \A c \in DOMAIN ctx :
        (PollOf(c) /\ FixCount = 0)
        => /\ ev.returned
           /\ ev.ret = 0 - 1
           /\ ev.calls = <<>>
           /\ itx_trigger = ev.trigger_before

C5_Witness ==
    /\ PollOf(1)
    /\ FixCount = 0
    /\ ctx[1].u8_tx_GPS_past_time = 1
    /\ AgeSeconds < 7200
    /\ ev.ret = 0 - 1

(* C6: a poll made with fix-count > 0 and an ineligible reference leaves     *)
(* the latch, the oscillator state, the encoded buffer, the transmit buffer  *)
(* and the write-position counter unchanged, whatever the slot.              *)
C6_NotEligibleNoEffect ==
    [][ \A c \in DOMAIN ctx :
          (ev'.op = "poll" /\ ev'.c = c /\ FixCount > 0 /\ ~ReferenceEligible(c))
          => /\ itx_trigger' = itx_trigger
             /\ ctx'[c].dco_running = ctx[c].dco_running
             /\ ctx'[c].pu8_outbuf = ctx[c].pu8_outbuf
             /\ ctx'[c].pbyte_buffer = ctx[c].pbyte_buffer
             /\ ctx'[c].ix_input = ctx[c].ix_input
             /\ ev'.calls = <<>> ]_vars

C6_Witness ==
    /\ PollOf(1)
    /\ FixCount > 0
    /\ ~ReferenceEligible(1)
    /\ ctx[1].u8_tx_GPS_past_time = 0
    /\ AgeSeconds < 7200
    /\ SlotIndex % 2 = 1
    /\ itx_trigger = 1
    /\ ctx[1].dco_running
    /\ ctx[1].ix_input = 162

(* C7: the scheduler never starts the oscillator while the effective         *)
(* transmit frequency is at or below 1,100,000 Hz.                           *)
C7_NoStartAtOrBelowFloor ==
    \A c \in DOMAIN ctx :
        (PollOf(c) /\ AlwaysConfigured /\ Called("PioDCOStart"))
        => ctx[c].u32_dialfreqhz > 1100000

(* C8: with two beacons polled in any interleaving, each poll triggers        *)
(* exactly when it would have triggered had its beacon been polled alone.     *)
C8_LatchPerInstance ==
    (ev.op = "poll" /\ AlwaysConfigured)
    => ((ev.calls = TriggerCalls) <=> ev.solo)

(* C9: SendPacket aborts, leaving buffer and counter unchanged, when the      *)
(* effective frequency is <= 1,100,000 Hz; otherwise it returns success and   *)
(* the write-position counter afterwards equals the counter before plus       *)
(* the symbol count (162).                                                    *)
C9_SendAbortsOrAdvancesBySymbolCount ==
    [][ \A c \in DOMAIN ctx :
          (ev'.op = "send" /\ ev'.c = c)
          => IF ctx[c].u32_dialfreqhz <= 1100000
               THEN aborted' /\ ~ev'.returned /\ ctx'[c] = ctx[c]
               ELSE /\ ev'.returned
                    /\ ev'.ret = 0
                    /\ ctx'[c].ix_input = ctx[c].ix_input + 162 ]_vars

(* C10: over successive triggers the write-position counter never            *)
(* decreases.                                                                *)
C10_WritePositionNeverDecreases ==
    [][ \A c \in DOMAIN ctx :
          div0' = 0 => ctx'[c].ix_input >= ctx[c].ix_input ]_vars

(* C11: with the solution not active and the override enabled, a poll whose  *)
(* fix age is 7200 whole seconds (or more) is not eligible and a poll whose  *)
(* fix age is 7199 whole seconds (or less) is eligible, the age being the    *)
(* microsecond difference of the clock and the fix stamp divided, rounding   *)
(* down, by 1,000,000; with the solution active every poll is eligible.      *)
C11_HoldoverBoundIsStrict ==
    \A c \in DOMAIN ctx :
        (PollOf(c) /\ FixCount > 0)
        => /\ (gps.u8_is_solution_active = 0 /\ ctx[c].u8_tx_GPS_past_time = 1)
                => /\ AgeSeconds >= 7200 => ~ev.entered
                   /\ AgeSeconds <= 7199 => ev.entered
           /\ gps.u8_is_solution_active = 1 => ev.entered

C11_Witness ==
    /\ PollOf(1)
    /\ FixCount > 0
    /\ gps.u8_is_solution_active = 0
    /\ ctx[1].u8_tx_GPS_past_time = 1
    /\ AgeSeconds = 7199
    /\ now.us < gps.u64_sysclk_nmea_last.us
    /\ ev.entered
    /\ ev.returned
    /\ ev.calls = TriggerCalls

(* C12: on every eligible poll the second of the hour and the slot index     *)
(* used for the slot decision are those of lastFixUnixTime + ageSeconds      *)
(* exactly, whatever the last-fix time and the elapsed duration: the 32-bit  *)
(* storage of the sum changes neither.                                       *)
C12_UnixNowIsExactSum ==
    \A c \in DOMAIN ctx :
        (PollOf(c) /\ AlwaysConfigured /\ ev.entered)
        => /\ ev.sec = WideMod(UnixNow, 3600)
           /\ ev.slot = SlotIndex

(* C13: a poll that triggers makes exactly these steps, each once and in     *)
(* this order: latch set, CreatePacket, oscillator start, settle delay,      *)
(* SendPacket; the settle delay comes after the oscillator start and before  *)
(* the handoff, and the poll makes no oscillator stop.                       *)
C13_TriggerStepsInOrder ==
    \A c \in DOMAIN ctx :
        ( /\ PollOf(c)
          /\ \/ Called("WSPRbeaconCreatePacket") \/ Called("PioDCOStart")
             \/ Called("sleep_ms") \/ Called("WSPRbeaconSendPacket") )
        => /\ Len(ev.calls) = 5
           /\ OnceAt("itx_trigger = 1", 1)
           /\ OnceAt("WSPRbeaconCreatePacket", 2)
           /\ OnceAt("PioDCOStart", 3)
           /\ OnceAt("sleep_ms", 4)
           /\ OnceAt("WSPRbeaconSendPacket", 5)
           /\ ~Called("PioDCOStop")
           /\ itx_trigger = 1
           /\ ctx[c].dco_running

C13_Witness ==
    /\ PollOf(1)
    /\ AlwaysConfigured
    /\ ev.trigger_before = 0
    /\ Called("sleep_ms")
    /\ Called("WSPRbeaconSendPacket")
    /\ ev.returned
    /\ ctx[1].ix_input = 162

\* the poll of context c made by this step is eligible and observes a
\* qualifying (TRUE) or a non-qualifying (FALSE) slot
EligiblePollObserving(c, qualifying) ==
    /\ ev'.op = "poll" /\ ev'.c = c
    /\ div0' = 0
    /\ SkipFactor(c) >= 1
    /\ FixCount > 0
    /\ ReferenceEligible(c)
    /\ (SlotIndex % SkipFactor(c) = 0) <=> qualifying

(* C14: the latch re-arms across a slot -> non-slot -> slot cycle: once the   *)
(* beacon has triggered and an eligible poll has since observed a             *)
(* non-qualifying slot, the next eligible poll that observes a qualifying     *)
(* slot triggers again; and the latch is cleared by the first eligible poll   *)
(* that observes a non-qualifying slot: it stays set until that poll and is   *)
(* clear after it.                                                            *)
C14_LatchRearmsAcrossCycle ==
    [][ \A c \in DOMAIN ctx :
          /\ (hist[c].phase = 2 /\ EligiblePollObserving(c, TRUE))
                => (ev'.calls = TriggerCalls /\ itx_trigger' = 1)
          /\ (div0' = 0 /\ itx_trigger = 1 /\ itx_trigger' = 0)
                => EligiblePollObserving(c, FALSE)
          /\ EligiblePollObserving(c, FALSE) => itx_trigger' = 0
          /\ (div0 = 0 /\ hist[c].phase = 1) => itx_trigger = 1 ]_vars

C14_Witness ==
    /\ PollOf(1)
    /\ AlwaysConfigured
    /\ SkipFactor(1) = 2
    /\ SlotIndex = 2
    /\ ev.trigger_before = 0
    /\ ev.calls = TriggerCalls
    /\ ev.returned
    /\ hist[1].phase = 1
    /\ ctx[1].ix_input = (2 * 162) % 256

(* C15: after every eligible poll that observes a non-qualifying slot the    *)
(* latch is clear and the oscillator stopped, the poll has returned Ok, and  *)
(* the encoded buffer, the transmit buffer and the write-position counter    *)
(* are as before; the poll issued the oscillator stop, whether or not the    *)
(* oscillator was running.                                                   *)
C15_NoSlotPollUnkeys ==
    [][ \A c \in DOMAIN ctx :
          EligiblePollObserving(c, FALSE)
          => /\ itx_trigger' = 0
             /\ ~ctx'[c].dco_running
             /\ ev'.returned
             /\ ev'.ret = 0
             /\ ctx'[c].pu8_outbuf = ctx[c].pu8_outbuf
             /\ ctx'[c].pbyte_buffer = ctx[c].pbyte_buffer
             /\ ctx'[c].ix_input = ctx[c].ix_input
             /\ \E i \in 1..Len(ev'.calls) : ev'.calls[i] = "PioDCOStop" ]_vars

C15_Witness ==
    /\ PollOf(1)
    /\ AlwaysConfigured
    /\ FixCount > 0
    /\ ReferenceEligible(1)
    /\ SkipFactor(1) = 2
    /\ SlotIndex = 1
    /\ ev.trigger_before = 0
    /\ ctx[1].ix_input = 0
    /\ Called("PioDCOStop")
    /\ ~ctx[1].dco_running
    /\ itx_trigger = 0

\* this step is a SendPacket of context c that returned: called directly, or
\* by a triggering poll
SendReturned(c) ==
    /\ ev'.c = c
    /\ ev'.returned
    /\ \/ ev'.op = "send"
       \/ /\ ev'.op = "poll"
          /\ \E i \in 1..Len(ev'.calls) : ev'.calls[i] = "WSPRbeaconSendPacket"

(* C16: after every SendPacket, the first and every later one, the buffer    *)
(* positions from the counter's value before the call up to its value after  *)
(* the call hold the symbol sequence just encoded, symbol by symbol.         *)
C16_PublishedPositionsHoldPacket ==
    [][ \A c \in DOMAIN ctx :
          SendReturned(c)
          => \A i \in 0..(162 - 1) :
                TxByteAt(ctx'[c].pbyte_buffer, (ctx[c].ix_input + i) % 256)
                    = ByteAt(ctx'[c].pu8_outbuf, i) ]_vars

\* the whole seconds from the fix of snapshot g to the clock value t, none
\* if the fix is not older than t
FixAge(g, t) ==
    IF TimeBefore(t, g.u64_sysclk_nmea_last) THEN 0
    ELSE (t.s - g.u64_sysclk_nmea_last.s)
            - (IF t.us < g.u64_sysclk_nmea_last.us THEN 1 ELSE 0)

\* second of the hour and slot index extrapolated from the complete fix g
Extrapolated(g, t) ==
    LET sec == WideMod(WideAdd(g.u32_utime_nmea_last, Wide(FixAge(g, t))), 3600)
    IN  [sec |-> sec, slot |-> sec \div 120]

(* C17: when a sentence updates the snapshot during a poll, the second of    *)
(* the hour and the slot index the poll uses are those extrapolated from     *)
(* the complete old fix or from the complete new fix: no wrapped age, and no *)
(* age of one fix added to the time of the other.                            *)
C17_RacedPollUsesOneFix ==
    [][ \A c \in DOMAIN ctx :
          ( /\ ev'.op = "poll" /\ ev'.c = c
            /\ gps' # gps
            /\ div0' = 0
            /\ ev'.entered )
          => [sec |-> ev'.sec, slot |-> ev'.slot]
                \in {Extrapolated(gps, now), Extrapolated(gps', now)} ]_vars

(* C18: for one beacon, in every reachable state: if the oscillator is       *)
(* running then the latch is set.                                            *)
C18_RunningImpliesLatched ==
    \A c \in DOMAIN ctx :
        (AlwaysConfigured /\ ctx[c].dco_running) => itx_trigger = 1

C18_Witness ==
    /\ AlwaysConfigured
    /\ PollOf(1)
    /\ ~ev.entered
    /\ FixCount > 0
    /\ ctx[1].dco_running
    /\ itx_trigger = 1
    /\ ~aborted

(* C19: every eligible poll computes slotIndex mod skipFactor with           *)
(* skipFactor >= 1: no call sequence, a poll of a context just returned by   *)
(* WSPRbeaconInit included, evaluates the modulo with skipFactor = 0.        *)
C19_ModuloNeverByZero ==
    /\ div0 = 0
    /\ \A c \in DOMAIN ctx : (PollOf(c) /\ ev.entered) => SkipFactor(c) >= 1

(* C20: every oscillator start is eventually followed by an oscillator stop  *)
(* (or by the program's abort), when polling continues for ever, time        *)
(* advances and every slot has a poll: the beacon never stays keyed for      *)
(* ever, whether the reference stays eligible or not, for every skip factor  *)
(* >= 1.                                                                     *)
C20_StartEventuallyStopped ==
    ctx[1].dco_running ~> (~ctx[1].dco_running \/ aborted)

====
